---- MODULE Spec2Model ----
(***************************************************************************)
(* dbt-py: the shim that adds a custom package to the modules dbt exposes  *)
(* to Jinja (dbt_py/main.py).                                              *)
(*                                                                         *)
(* A dotted Python name is a sequence of its segments: "pkg.a" is          *)
(* <<"pkg", "sub">> and the empty string is <<>>.  The importable modules    *)
(* are a tree `fs` of dotted names; importing a module either succeeds,    *)
(* raises ModuleNotFoundError (a dependency of it is missing) or raises    *)
(* some other error (one that is no ImportError).                          *)
(*                                                                         *)
(* dbt itself is outside: of it the model keeps the dict its own           *)
(* get_context_modules() gives, the calls it makes of the hook while it    *)
(* runs, and the result (success, exception) its runner returns, any of    *)
(* the four.                                                               *)
(***************************************************************************)
EXTENDS Integers, Sequences, FiniteSets, TLC

VARIABLES
    fs,            \* dotted name -> [is_pkg, outcome]: what is importable
    environ,       \* os.environ, restricted to the two DBT_PY_* settings
    sys_modules,   \* sys.modules: the names already imported
    cache,         \* functools.cache of _get_context_modules_shim
    hook,          \* dbt.context.base.get_context_modules
    pc,            \* where main() is
    argv,          \* sys.argv
    invoked,       \* the argument lists dbtRunner().invoke got in this main()
    result,        \* the dbtRunnerResult of this main()
    exit_code,     \* <<code>> of the SystemExit main() raised, <<>> before
    stdout,        \* the lines printed
    ret,           \* outcome of the latest call of the hook
    cfg_used,      \* the settings the latest computation of the shim read
    import_calls,  \* number of importlib.import_module calls so far
    hook_calls,    \* number of calls of the hook so far
    mains,         \* number of calls of main() so far
    call_args      \* number of positional arguments of the latest main(...)

vars == <<fs, environ, sys_modules, cache, hook, pc, argv, invoked, result,
          exit_code, stdout, ret, cfg_used, import_calls, hook_calls, mains,
          call_args>>

----------------------------------------------------------------------------
(* Bounds *)

\* modules in the importable tree
MaxNodes == 3
\* calls of the hook
MaxCalls == 2
\* calls of main()
MaxMains == 2

\* the names of top-level modules: the default package and one more
TopNames == {"custom", "pkg"}
\* the names below a package, in the order pkgutil yields them (sorted); a
\* subpackage may bear the name of a top-level package
SubNames == <<"pkg", "sub">>

Outcomes == {"ok", "notfound", "error"}

ROOT_VAR == "DBT_PY_PACKAGE_ROOT"
NAME_VAR == "DBT_PY_PACKAGE_NAME"

\* values the settings are given
RootValues == {<<>>, <<"pkg">>, <<"pkg", "sub">>}
NameValues == {<<>>, <<"custom_py">>, <<"datetime">>}

\* every os.environ that gives the settings values of `roots` and `names`,
\* or leaves them unset
Environs(roots, names) ==
    {e \in UNION {[d -> roots \cup names] : d \in SUBSET {ROOT_VAR, NAME_VAR}} :
        /\ ROOT_VAR \in DOMAIN e => e[ROOT_VAR] \in roots
        /\ NAME_VAR \in DOMAIN e => e[NAME_VAR] \in names}

ArgvValues == {<<"dbt-py">>, <<"dbt-py", "compile", "--project-dir">>}

----------------------------------------------------------------------------
(* The importable trees *)

Range(s) == {s[i] : i \in DOMAIN s}

Children(t) ==
    {<<n>> : n \in TopNames}
        \cup {Append(p, n) : p \in t, n \in Range(SubNames)}

RECURSIVE Trees(_)
Trees(n) ==
    IF n = 0 THEN {{}}
    ELSE LET prev == Trees(n - 1)
         IN  prev \cup UNION {{t \cup {c} : c \in Children(t) \ t} : t \in prev}

Internal(t) == {p \in t : \E c \in t : Len(c) = Len(p) + 1 /\ SubSeq(c, 1, Len(p)) = p}

\* every tree of at most MaxNodes modules; a module with children is a
\* package, a leaf is a package or a plain module; every outcome of importing
FileSystems ==
    UNION {
        UNION {
            {[p \in t |-> [is_pkg |-> (p \in Internal(t) \/ p \in pk),
                           outcome |-> o[p]]] : o \in [t -> Outcomes]}
            : pk \in SUBSET (t \ Internal(t))}
        : t \in Trees(MaxNodes)}

\* the trees that hold top-level modules only
FlatFileSystems == {f \in FileSystems : \A p \in DOMAIN f : Len(p) = 1}

\* the trees that hold one top-level module at most
DefaultFileSystems == {f \in FileSystems : DOMAIN f \subseteq {<<"custom">>, <<"pkg">>}
                                            /\ Cardinality(DOMAIN f) <= 1}

----------------------------------------------------------------------------
(* Importing *)

\* the state threaded through a run of imports
\*   mods: sys.modules, n: calls of import_module, results: the dict
\*   _import_submodules builds, status/missing: the exception in flight
ImportState(mods, n) ==
    [mods |-> mods, n |-> n, results |-> {}, status |-> "ok", missing |-> <<>>]

\* the import machinery loading one module whose parents are loaded
LoadModule(name, st) ==
    IF st.status # "ok" \/ name \in st.mods THEN st
    ELSE IF name \notin DOMAIN fs
         THEN [st EXCEPT !.status = "notfound", !.missing = name]
    ELSE IF fs[name].outcome = "ok"
         THEN [st EXCEPT !.mods = @ \cup {name}]
    ELSE [st EXCEPT !.status = fs[name].outcome, !.missing = name]

RECURSIVE LoadPrefixes(_, _, _)
LoadPrefixes(name, i, st) ==
    IF i > Len(name) THEN st
    ELSE LoadPrefixes(name, i + 1, LoadModule(SubSeq(name, 1, i), st))

\* importlib.import_module(name): the parents first, then the module; the
\* empty name raises (ValueError)
import_module(name, st) ==
    IF st.status # "ok" THEN st
    ELSE IF name = <<>> THEN [st EXCEPT !.status = "error", !.n = @ + 1]
    ELSE LoadPrefixes(name, 1, [st EXCEPT !.n = @ + 1])

RECURSIVE _import_submodules(_, _, _)
RECURSIVE walk_packages(_, _, _, _, _, _)

\* pkgutil.walk_packages, resumed after it yielded the package `name`: it
\* imports `name` as an absolute name (no prefix was given to it, so that is
\* not package.name) and walks what it got; an ImportError ends the descent,
\* any other error leaves the generator
Descend(package, recursive, name, st) ==
    IF st.status # "ok" THEN st
    ELSE LET st1 == LoadPrefixes(name, 1, st)
         IN  IF st1.status = "notfound"
             THEN [st1 EXCEPT !.status = "ok", !.missing = <<>>]
             ELSE IF st1.status = "ok" /\ fs[name].is_pkg
             THEN walk_packages(package, recursive, name, name, 1, st1)
             ELSE st1

\* the loop `for loader, name, is_pkg in pkgutil.walk_packages(package.__path__)`
\* from the i-th entry of the directory of `path`, whose names pkgutil
\* yields with `prefix` before them
walk_packages(package, recursive, path, prefix, i, st) ==
    IF i > Len(SubNames) \/ st.status # "ok" THEN st
    ELSE LET found == Append(path, SubNames[i])
             name == Append(prefix, SubNames[i])
         IN  IF found \notin DOMAIN fs
             THEN walk_packages(package, recursive, path, prefix, i + 1, st)
             ELSE LET is_pkg == fs[found].is_pkg
                      full_name == package \o name
                      st1 == import_module(full_name, st)
                      st2 == IF st1.status = "ok"
                             THEN [st1 EXCEPT !.results = @ \cup {full_name}]
                             ELSE st1
                      st3 == IF st2.status = "ok" /\ recursive /\ is_pkg
                             THEN _import_submodules(full_name, TRUE, st2)
                             ELSE st2
                      st4 == IF is_pkg
                             THEN Descend(package, recursive, name, st3)
                             ELSE st3
                 IN  walk_packages(package, recursive, path, prefix, i + 1, st4)

_import_submodules(package_name, recursive, st) ==
    LET st1 == import_module(package_name, st)
    IN  IF st1.status # "ok" THEN st1
        ELSE IF ~fs[package_name].is_pkg THEN st1
        ELSE walk_packages(package_name, recursive, package_name, <<>>, 1, st1)

----------------------------------------------------------------------------
(* The registry *)

HostKeys == {<<"pytz">>, <<"datetime">>, <<"re">>, <<"itertools">>}

\* dbt's own get_context_modules(): a fresh dict on every call
_get_context_modules == [k \in HostKeys |-> [kind |-> "context", name |-> k]]

Module(name) == [kind |-> "module", name |-> name]

\* os.environ.get(key) or default
EnvOr(env, key, default) ==
    IF key \in DOMAIN env /\ env[key] # <<>> THEN env[key] ELSE default

package_root(env) == EnvOr(env, ROOT_VAR, <<"custom">>)
package_name(env) == EnvOr(env, NAME_VAR, package_root(env))

\* the line the shim prints when the package is not found
WarningLine ==
    << <<"ESC[1;33m">>,
       <<"Warning: dbt-py was invoked, but no custom package was found.">>,
       <<"ESC[0m">> >>

SetItem_Replace(modules, key, value) == [k \in {key} |-> value]

\* modules[package_name] = value
SetItem(modules, key, value) ==
    [k \in DOMAIN modules \cup {key} |-> IF k = key THEN value ELSE modules[k]]

ShimBody_EntryFirst(env, mods, n) ==
    LET root == package_root(env)
        name == package_name(env)
        modules == SetItem(_get_context_modules, name, Module(root))
        st1 == _import_submodules(root, TRUE, ImportState(mods, n))
        st2 == import_module(root, st1)
    IN  IF st2.status = "ok"
        THEN [st |-> st2, kind |-> "return", value |-> modules, printed |-> <<>>]
        ELSE IF st2.status = "notfound"
        THEN [st |-> st2, kind |-> "return", value |-> modules,
              printed |-> <<WarningLine>>]
        ELSE [st |-> st2, kind |-> "raise", value |-> [k \in {} |-> 0],
              printed |-> <<>>]

ShimBody_CatchAll(env, mods, n) ==
    LET root == package_root(env)
        name == package_name(env)
        modules == _get_context_modules
        st1 == _import_submodules(root, TRUE, ImportState(mods, n))
        st2 == import_module(root, st1)
    IN  IF st2.status = "ok"
        THEN [st |-> st2, kind |-> "return",
              value |-> SetItem(modules, name, Module(root)), printed |-> <<>>]
        ELSE [st |-> st2, kind |-> "return", value |-> modules,
              printed |-> <<WarningLine>>]

\* the body of _get_context_modules_shim: [st, kind, value, printed]
ShimBody(env, mods, n) ==
    LET root == package_root(env)
        name == package_name(env)
        modules == _get_context_modules
        st1 == _import_submodules(root, TRUE, ImportState(mods, n))
        st2 == import_module(root, st1)
    IN  IF st2.status = "ok"
        THEN [st |-> st2, kind |-> "return",
              value |-> SetItem(modules, name, Module(root)), printed |-> <<>>]
        ELSE IF st2.status = "notfound"
        THEN [st |-> st2, kind |-> "return", value |-> modules,
              printed |-> <<WarningLine>>]
        ELSE [st |-> st2, kind |-> "raise", value |-> [k \in {} |-> 0],
              printed |-> <<>>]

NoRet == [kind |-> "none", value |-> [k \in {} |-> 0], cached |-> FALSE,
          target |-> "none", st |-> ImportState({}, 0), printed |-> <<>>]
NoCache == [filled |-> FALSE, value |-> [k \in {} |-> 0]]
NoResult == [returned |-> FALSE, success |-> FALSE, exception |-> FALSE]

----------------------------------------------------------------------------
(* The process *)

Quiescent == pc \in {"idle", "exited", "raised"}

Start(filesystems, environs) ==
    /\ fs \in filesystems
    /\ environ \in environs
    /\ sys_modules = {}
    /\ cache = NoCache
    /\ hook = "host"
    /\ pc = "idle"
    /\ argv = <<"dbt-py">>
    /\ invoked = <<>>
    /\ result = NoResult
    /\ exit_code = <<>>
    /\ stdout = <<>>
    /\ ret = NoRet
    /\ cfg_used = [root |-> <<>>, name |-> <<>>]
    /\ import_calls = 0
    /\ hook_calls = 0
    /\ mains = 0
    /\ call_args = 0

\* monkeypatch.setenv / os.environ[key] = value
SetEnv(key, value) ==
    /\ Quiescent
    /\ environ' = [k \in DOMAIN environ \cup {key} |->
                        IF k = key THEN value ELSE environ[k]]
    /\ environ' # environ
    /\ UNCHANGED <<fs, sys_modules, cache, hook, pc, argv, invoked, result,
                   exit_code, stdout, ret, cfg_used, import_calls, hook_calls,
                   mains, call_args>>

\* _get_context_modules_shim.cache_clear()
CacheClear ==
    /\ Quiescent
    /\ cache.filled
    /\ cache' = NoCache
    /\ UNCHANGED <<fs, environ, sys_modules, hook, pc, argv, invoked, result,
                   exit_code, stdout, ret, cfg_used, import_calls, hook_calls,
                   mains, call_args>>

CacheHit_PerConfig ==
    /\ cache.filled
    /\ cfg_used = [root |-> package_root(environ), name |-> package_name(environ)]

\* functools.cache on a function without parameters: one entry, hit once filled
CacheHit == cache.filled

\* a call of _get_context_modules_shim()
CallShim ==
    IF CacheHit
    THEN /\ ret' = [kind |-> "return", value |-> cache.value, cached |-> TRUE,
                    target |-> "shim", st |-> ImportState(sys_modules, import_calls),
                    printed |-> <<>>]
         /\ UNCHANGED <<sys_modules, cache, stdout, cfg_used, import_calls>>
    ELSE LET r == ShimBody(environ, sys_modules, import_calls)
         IN  /\ ret' = [kind |-> r.kind, value |-> r.value, cached |-> FALSE,
                        target |-> "shim", st |-> r.st, printed |-> r.printed]
             /\ sys_modules' = r.st.mods
             /\ import_calls' = r.st.n
             /\ stdout' = stdout \o r.printed
             /\ cfg_used' = [root |-> package_root(environ),
                             name |-> package_name(environ)]
             /\ cache' = IF r.kind = "return"
                         THEN [filled |-> TRUE, value |-> r.value]
                         ELSE cache

\* _get_context_modules_shim() called directly
Resolve ==
    /\ Quiescent
    /\ hook_calls < MaxCalls
    /\ hook_calls' = hook_calls + 1
    /\ CallShim
    /\ UNCHANGED <<fs, environ, hook, pc, argv, invoked, result, exit_code, mains,
                   call_args>>

InvokeArgs_Whole(args) == args

\* sys.argv[1:]
InvokeArgs(args) == Tail(args)

\* main() called with `nargs` positional arguments: it takes none
MainCall(nargs, args) ==
    /\ Quiescent
    /\ mains < MaxMains
    /\ mains' = mains + 1
    /\ argv' = args
    /\ result' = NoResult
    /\ exit_code' = <<>>
    /\ invoked' = IF nargs = 0 THEN <<InvokeArgs(args)>> ELSE <<>>
    /\ hook' = IF nargs = 0 THEN "shim" ELSE hook
    /\ pc' = IF nargs = 0 THEN "invoking" ELSE "raised"
    /\ call_args' = nargs
    /\ ret' = NoRet
    /\ UNCHANGED <<fs, environ, sys_modules, cache, stdout, cfg_used,
                   import_calls, hook_calls>>

\* dbt, while it runs, asks dbt.context.base.get_context_modules()
HostCallsHook ==
    /\ pc = "invoking"
    /\ hook_calls < MaxCalls
    /\ hook_calls' = hook_calls + 1
    /\ IF hook = "shim"
       THEN CallShim
       ELSE /\ ret' = [kind |-> "return", value |-> _get_context_modules,
                       cached |-> FALSE, target |-> "host",
                       st |-> ImportState(sys_modules, import_calls),
                       printed |-> <<>>]
            /\ UNCHANGED <<sys_modules, cache, stdout, cfg_used, import_calls>>
    /\ UNCHANGED <<fs, environ, hook, pc, argv, invoked, result, exit_code, mains,
                   call_args>>

\* dbtRunner().invoke(...) returns its result
InvokeReturns(success, exception) ==
    /\ pc = "invoking"
    /\ result' = [returned |-> TRUE, success |-> success, exception |-> exception]
    /\ pc' = "returned"
    /\ UNCHANGED <<fs, environ, sys_modules, cache, hook, argv, invoked,
                   exit_code, stdout, ret, cfg_used, import_calls, hook_calls,
                   mains, call_args>>

ExitCode_ExceptionFirst(r) ==
    IF r.exception THEN 2
    ELSE IF r.success THEN 0
    ELSE 1

\* the SystemExit main() raises for the result r
ExitCode(r) ==
    IF r.success THEN 0
    ELSE IF ~r.exception THEN 1
    ELSE 2

\* main() raises SystemExit
MainExit ==
    /\ pc = "returned"
    /\ exit_code' = <<ExitCode(result)>>
    /\ pc' = "exited"
    /\ UNCHANGED <<fs, environ, sys_modules, cache, hook, argv, invoked, result,
                   stdout, ret, cfg_used, import_calls, hook_calls, mains,
                   call_args>>

Unset == [k \in {} |-> <<>>]

\* the process from its start: main() and what dbt does while it runs
Init == Start(DefaultFileSystems, {Unset})

Next ==
    \/ \E v \in RootValues : SetEnv(ROOT_VAR, v)
    \/ \E v \in NameValues : SetEnv(NAME_VAR, v)
    \/ CacheClear
    \/ \E nargs \in {0, 1}, args \in ArgvValues : MainCall(nargs, args)
    \/ HostCallsHook
    \/ \E s \in BOOLEAN, e \in BOOLEAN : InvokeReturns(s, e)
    \/ MainExit

Spec == Init /\ [][Next]_vars

\* the shim alone over every tree, the settings fixed from the start
InitImport == Start(FileSystems, Environs(RootValues, {<<>>}))

NextImport ==
    \/ Resolve
    \/ CacheClear

SpecImport == InitImport /\ [][NextImport]_vars

\* the shim alone while the settings change
InitConfig == Start(FlatFileSystems, {Unset})

NextConfig ==
    \/ \E v \in RootValues : SetEnv(ROOT_VAR, v)
    \/ \E v \in NameValues : SetEnv(NAME_VAR, v)
    \/ Resolve
    \/ CacheClear

SpecConfig == InitConfig /\ [][NextConfig]_vars

----------------------------------------------------------------------------
(* What the claims speak of, stated on the tree and the settings alone *)

Prefixes(name) == {SubSeq(name, 1, i) : i \in 1..Len(name)}

Descendants(root) ==
    {p \in DOMAIN fs : Len(p) > Len(root) /\ SubSeq(p, 1, Len(root)) = root}

\* the package reference cannot be found: a segment of it does not exist,
\* and what comes before that segment imports
RootMissing(root) ==
    \E p \in Prefixes(root) :
        /\ p \notin DOMAIN fs
        /\ \A q \in Prefixes(p) \ {p} : q \in DOMAIN fs /\ fs[q].outcome = "ok"

\* importing the package reference raises the error `o`: a segment of it
\* does, and what comes before that segment imports
RootFault(root, o) ==
    \E p \in Prefixes(root) :
        /\ p \in DOMAIN fs /\ fs[p].outcome = o
        /\ \A q \in Prefixes(p) \ {p} : q \in DOMAIN fs /\ fs[q].outcome = "ok"

\* the package, its parents and all its submodules import
Healthy(root) ==
    /\ root # <<>>
    /\ \A p \in Prefixes(root) \cup Descendants(root) :
            p \in DOMAIN fs /\ fs[p].outcome = "ok"

HostEntry(k) == [kind |-> "context", name |-> k]

IsHostRegistry(m) == DOMAIN m = HostKeys /\ \A k \in HostKeys : m[k] = HostEntry(k)

Setting(key) == IF key \in DOMAIN environ THEN environ[key] ELSE <<>>

ConfiguredRoot == IF Setting(ROOT_VAR) = <<>> THEN <<"custom">> ELSE Setting(ROOT_VAR)
ConfiguredName == IF Setting(NAME_VAR) = <<>> THEN ConfiguredRoot ELSE Setting(NAME_VAR)

Contains(line, token) == \E i \in DOMAIN line : line[i] = token

\* the latest call of the hook ran the body of the shim
Computed == ret.target = "shim" /\ ~ret.cached

\* this step is a call of the shim
ShimStep == hook_calls' = hook_calls + 1 /\ ret'.target = "shim"

----------------------------------------------------------------------------
(* The claims *)

\* C1: main exits with 0 when the result has success set, whatever its
\* exception; with 1 when success is unset and there is no exception; with 2
\* when success is unset and there is an exception; with no other code, and
\* only by exiting.
C1_ExitCodeMapping ==
    /\ exit_code \in {<<>>, <<0>>, <<1>>, <<2>>}
    /\ exit_code # <<>> <=> pc = "exited"
    /\ pc = "exited" =>
        /\ result.returned
        /\ result.success => exit_code = <<0>>
        /\ ~result.success /\ ~result.exception => exit_code = <<1>>
        /\ ~result.success /\ result.exception => exit_code = <<2>>

C1_Witness ==
    pc = "exited" /\ result.success /\ result.exception /\ exit_code = <<0>>

\* C2: when the configured package cannot be found the shim does not raise
\* and returns exactly the host's entries, nothing at the exposed name; and
\* main on a successful host run exits with 0.
C2_MissingPackageIsHandled ==
    Computed /\ RootMissing(cfg_used.root) =>
        /\ ret.kind = "return"
        /\ IsHostRegistry(ret.value)
        /\ pc = "exited" /\ result.success => exit_code = <<0>>

C2_Witness ==
    /\ Computed /\ RootMissing(cfg_used.root)
    /\ ret.kind = "return"
    /\ pc = "exited" /\ result.success /\ exit_code = <<0>>

\* C3: when the package cannot be imported, the warning line printed holds
\* the tag DbtPyWarning, the name of the package and the text of the import
\* error.
C3_WarningNamesPackage ==
    Computed /\ RootMissing(cfg_used.root) =>
        /\ Len(ret.printed) = 1
        /\ Contains(ret.printed[1], <<"DbtPyWarning: failed to import package">>)
        /\ Contains(ret.printed[1], cfg_used.root)
        /\ Contains(ret.printed[1], <<"No module named">>)

\* C4: when the package and all its submodules import, the mapping returned
\* holds the package under the exposed name; the package is the root setting,
\* or "custom" when that is unset or empty; the exposed name is the name
\* setting, or the package reference when that is unset or empty.
C4_PackageUnderExposedName ==
    ret.target = "shim" /\ Healthy(ConfiguredRoot) =>
        /\ ret.kind = "return"
        /\ ConfiguredName \in DOMAIN ret.value
        /\ ret.value[ConfiguredName] = [kind |-> "module", name |-> ConfiguredRoot]

C4_Witness ==
    /\ ret.target = "shim" /\ Healthy(ConfiguredRoot)
    /\ NAME_VAR \in DOMAIN environ /\ environ[NAME_VAR] = <<>>
    /\ ROOT_VAR \in DOMAIN environ /\ environ[ROOT_VAR] = <<"pkg", "sub">>
    /\ ret.value[<<"pkg", "sub">>].kind = "module"

\* C5: once a call of the shim has returned, every later call without
\* cache_clear returns that mapping, reads no setting and imports nothing,
\* even when the settings changed; after cache_clear the next call reads the
\* settings as they are and computes again.
C5_Step ==
    /\ ShimStep /\ cache.filled =>
        /\ ret'.kind = "return" /\ ret'.value = cache.value
        /\ UNCHANGED <<cache, cfg_used, import_calls, sys_modules, stdout>>
    /\ ShimStep /\ ~cache.filled =>
        /\ cfg_used' = [root |-> ConfiguredRoot, name |-> ConfiguredName]
        /\ import_calls' > import_calls
    /\ cache.filled /\ ~ShimStep =>
        \/ cache' = cache
        \/ ~cache'.filled /\ UNCHANGED <<environ, ret, hook_calls>>

C5_Memoized == [][C5_Step]_vars

C5_Witness ==
    /\ ret.cached
    /\ cache.filled
    /\ cfg_used # [root |-> ConfiguredRoot, name |-> ConfiguredName]
    /\ hook_calls >= 2

\* C6: the mapping a call returns holds every host entry whose key is not
\* the exposed name, with the host's value, and at most one key more.
C6_HostEntriesKept ==
    ret.target = "shim" /\ ret.kind = "return" =>
        /\ \A k \in HostKeys \ {cfg_used.name} :
                k \in DOMAIN ret.value /\ ret.value[k] = HostEntry(k)
        /\ DOMAIN ret.value \subseteq HostKeys \cup {cfg_used.name}

C6_Witness ==
    /\ ret.target = "shim" /\ ret.kind = "return"
    /\ cfg_used.name = <<"datetime">>
    /\ ret.value[<<"datetime">>].kind = "module"
    /\ ret.value[<<"re">>] = HostEntry(<<"re">>)

\* C7: main called with a directory besides sys.argv runs dbt and, on a
\* successful run, exits with 0 and prints no warning.
C7_MainAcceptsDirectory ==
    call_args = 1 =>
        /\ pc # "raised"
        /\ pc = "exited" /\ result.success => exit_code = <<0>> /\ ret.printed = <<>>

\* C8: the override is installed before dbt is invoked, so every call dbt
\* makes of the hook reaches the shim; dbt is invoked once, with sys.argv less
\* the program name; the exit code comes after dbt returned; the override is
\* never taken out.
C8_State ==
    /\ pc \in {"invoking", "returned", "exited"} =>
        /\ hook = "shim"
        /\ invoked = <<SubSeq(argv, 2, Len(argv))>>
    /\ ret.target # "host"
    /\ exit_code # <<>> => result.returned
    /\ result.returned => pc \in {"returned", "exited"}

C8_OverrideOrder == []C8_State /\ [][hook = "shim" => hook' = "shim"]_vars

C8_Witness ==
    /\ mains = 2
    /\ pc = "exited"
    /\ hook = "shim"
    /\ ret.target = "shim"
    /\ invoked = <<<<"compile", "--project-dir">>>>

\* C9: the shim imports every submodule and subpackage of the package at
\* every depth, none for a plain module, and the entry at the exposed name is
\* written only after all of them are imported.
C9_AllSubmodulesImported ==
    /\ Computed /\ Healthy(cfg_used.root) =>
        /\ ret.st.results = Descendants(cfg_used.root)
        /\ Descendants(cfg_used.root) \subseteq sys_modules
    /\ Computed /\ ret.st.status = "ok" /\ ~fs[cfg_used.root].is_pkg =>
        ret.st.results = {}
    /\ ret.target = "shim" /\ ret.kind = "return" /\ ~IsHostRegistry(ret.value) =>
        Prefixes(cfg_used.root) \cup Descendants(cfg_used.root) \subseteq sys_modules

C9_Witness ==
    /\ Computed /\ Healthy(cfg_used.root)
    /\ \E p \in ret.st.results : Len(p) = Len(cfg_used.root) + 2
    /\ ~IsHostRegistry(ret.value)

\* C10: the shim prints the warning, returns the registry without the custom
\* entry and memoizes that, exactly when a ModuleNotFoundError is raised while
\* importing (for the package, a submodule or a dependency of one); any other
\* error leaves the shim, with nothing written and nothing memoized, and the
\* next call imports again.
C10_State ==
    /\ Computed /\ (RootMissing(cfg_used.root) \/ RootFault(cfg_used.root, "notfound")) =>
        ret.kind = "return" /\ ret.printed # <<>> /\ IsHostRegistry(ret.value)
    /\ Computed /\ RootFault(cfg_used.root, "error") => ret.kind = "raise"
    /\ Computed =>
        /\ ret.st.status = "notfound" <=> ret.printed # <<>>
        /\ ret.st.status = "notfound" => ret.kind = "return" /\ IsHostRegistry(ret.value)
        /\ ret.st.status = "error" <=> ret.kind = "raise"
    /\ ret.kind = "raise" => ~cache.filled

C10_Step ==
    /\ ShimStep /\ ~ret'.cached /\ ret'.st.status = "notfound" =>
        cache' = [filled |-> TRUE, value |-> ret'.value]
    /\ ShimStep /\ ret.kind = "raise" =>
        ~ret'.cached /\ import_calls' > import_calls

====
